---- MODULE Spec2Model ----
(***************************************************************************)
(* A model of the create-app scaffold: the NamedFlagSets grouping, the     *)
(* section renderer PrintSections, and the App builder with its execution  *)
(* lifecycle (NewApp / buildCommand / Run / runCommand / applyOptionRules).*)
(*                                                                         *)
(* Text is a sequence of one-character strings, so that Index, Split, Join *)
(* and the column arithmetic of the renderer are computed as the code      *)
(* computes them.                                                          *)
(***************************************************************************)
EXTENDS Integers, Sequences, FiniteSets, TLC

VARIABLES
    pc,        \* position of the modelled program
    nfs,       \* a NamedFlagSets value: [Order, FlagSets], FlagSets maps a name to a *pflag.FlagSet
    heap,      \* the allocated pflag.FlagSets: heap[id] is the set of flags of FlagSet id
    refs,      \* history: the names passed to NamedFlagSets.FlagSet so far
    ret,       \* history: the pointer returned by the last FlagSet call
    firstRet,  \* history: the pointer returned by the first call with each name
    cols,      \* the columns argument of PrintSections
    out,       \* what PrintSections wrote to w: [panic, text]
    app,       \* the App value
    cmd,       \* the root cobra.Command built by buildCommand
    optsLeft,  \* how many more Options NewApp may still apply
    run        \* what one App.Run did

vars == <<pc, nfs, heap, refs, ret, firstRet, cols, out, app, cmd, optsLeft, run>>

----------------------------------------------------------------------------
(* Bounds *)

\* at most this many NamedFlagSets.FlagSet calls in a behaviour of SpecNFS
MaxCalls == 4
\* PrintSections is applied with columns in 0 .. MaxCols
MaxCols == 27
\* at most this many Options are handed to NewApp
MaxOpts == 5

----------------------------------------------------------------------------
(* Text *)

Chars(s) == {s[i] : i \in 1..Len(s)}

Repeat(c, n) == [i \in 1..n |-> c]

RECURSIVE Concat(_)
Concat(ss) == IF ss = <<>> THEN <<>> ELSE Head(ss) \o Concat(Tail(ss))

\* byte order of the characters this model uses
Ord(c) ==
    CASE c = "\n" -> 10 [] c = " " -> 32 [] c = "-" -> 45 [] c = "," -> 44
      [] c = ":" -> 58 [] c = "G" -> 71 [] c = "M" -> 77
      [] c = "a" -> 97 [] c = "b" -> 98 [] c = "c" -> 99 [] c = "d" -> 100
      [] c = "e" -> 101 [] c = "f" -> 102 [] c = "g" -> 103 [] c = "h" -> 104
      [] c = "i" -> 105 [] c = "l" -> 108 [] c = "m" -> 109 [] c = "n" -> 110
      [] c = "o" -> 111 [] c = "p" -> 112 [] c = "r" -> 114 [] c = "s" -> 115
      [] c = "t" -> 116 [] c = "v" -> 118 [] c = "y" -> 121 [] c = "z" -> 122
      [] OTHER -> 126

\* s < t as Go compares strings
RECURSIVE StrLess(_, _)
StrLess(s, t) ==
    IF t = <<>> THEN FALSE
    ELSE IF s = <<>> THEN TRUE
    ELSE IF Head(s) # Head(t) THEN Ord(Head(s)) < Ord(Head(t))
    ELSE StrLess(Tail(s), Tail(t))

HasPrefixAt(s, sub, i) ==
    /\ i + Len(sub) - 1 <= Len(s)
    /\ \A k \in 1..Len(sub) : s[i + k - 1] = sub[k]

\* strings.Index, 0-based, -1 when absent
Index(s, sub) ==
    LET hits == {i \in 1..(Len(s) + 1) : HasPrefixAt(s, sub, i)}
    IN  IF hits = {} THEN -1
        ELSE (CHOOSE i \in hits : \A j \in hits : i <= j) - 1

\* strings.Split(s, "\n")
RECURSIVE SplitNL(_)
SplitNL(s) ==
    LET i == Index(s, <<"\n">>)
    IN  IF i = -1 THEN <<s>>
        ELSE <<SubSeq(s, 1, i)>> \o SplitNL(SubSeq(s, i + 2, Len(s)))

\* strings.Join(ss, "\n")
RECURSIVE JoinNL(_)
JoinNL(ss) ==
    IF ss = <<>> THEN <<>>
    ELSE IF Len(ss) = 1 THEN ss[1]
    ELSE ss[1] \o <<"\n">> \o JoinNL(Tail(ss))

\* strings.Replace(s, "\n", r, -1)
RECURSIVE ReplaceNL(_, _)
ReplaceNL(s, r) ==
    IF s = <<>> THEN <<>>
    ELSE (IF Head(s) = "\n" THEN r ELSE <<Head(s)>>) \o ReplaceNL(Tail(s), r)

\* strings.ToUpper on one character
ToUpper(c) == CASE c = "g" -> "G" [] c = "m" -> "M" [] OTHER -> c

----------------------------------------------------------------------------
(* NamedFlagSets *)

\* the zero NamedFlagSets: nil Order, nil FlagSets
EmptyNFS == [Order |-> <<>>, FlagSets |-> <<>>]

GroupGlobal == <<"g", "l", "o", "b", "a", "l">>
GroupMisc == <<"m", "i", "s", "c">>
GroupNames == {GroupGlobal, GroupMisc, <<"g", "e", "n">>}

\* a mutation of FlagSet: the "already registered" test is lost
FlagSetNoLookup(n, h, name) ==
    [nfs  |-> [Order |-> Append(n.Order, name),
               FlagSets |-> [k \in DOMAIN n.FlagSets \cup {name} |-> Len(h) + 1]],
     heap |-> Append(h, {}),
     ret  |-> Len(h) + 1]

\* nfs.FlagSet(name) on NamedFlagSets n with allocated flag sets h:
\* the NamedFlagSets and the heap after the call, and the pointer returned
FlagSet(n, h, name) ==
    IF name \notin DOMAIN n.FlagSets
    THEN LET id == Len(h) + 1
         IN  [nfs  |-> [Order |-> Append(n.Order, name),
                        FlagSets |-> [k \in DOMAIN n.FlagSets \cup {name} |->
                                        IF k = name THEN id ELSE n.FlagSets[k]]],
              heap |-> Append(h, {}),
              ret  |-> id]
    ELSE [nfs |-> n, heap |-> h, ret |-> n.FlagSets[name]]

IdleApp == [idle |-> TRUE]

InitNFS ==
    /\ pc = "nfs"
    /\ nfs = EmptyNFS
    /\ heap = <<>>
    /\ refs = <<>>
    /\ ret = 0
    /\ firstRet = <<>>
    /\ cols = 0
    /\ out = [panic |-> FALSE, text |-> <<>>]
    /\ app = IdleApp
    /\ cmd = IdleApp
    /\ optsLeft = 0
    /\ run = IdleApp

FlagSetCall(name) ==
    /\ pc = "nfs"
    /\ Len(refs) < MaxCalls
    /\ LET r == FlagSet(nfs, heap, name)
       IN  /\ nfs' = r.nfs
           /\ heap' = r.heap
           /\ ret' = r.ret
           /\ firstRet' = IF name \in DOMAIN firstRet THEN firstRet
                          ELSE [k \in DOMAIN firstRet \cup {name} |->
                                  IF k = name THEN r.ret ELSE firstRet[k]]
    /\ refs' = Append(refs, name)
    /\ UNCHANGED <<pc, cols, out, app, cmd, optsLeft, run>>

NextNFS == \E name \in GroupNames : FlagSetCall(name)

SpecNFS == InitNFS /\ [][NextNFS]_vars

----------------------------------------------------------------------------
(* The flag-collection primitive (github.com/spf13/pflag v1.0.5), as        *)
(* PrintSections uses it.  A flag is [name, shorthand, typ, usage]; every   *)
(* modelled flag is registered with its type's zero value as default, so no *)
(* "(default ...)" text is rendered.                                        *)

Spaces(n) == Repeat(" ", n)

\* the flags of a set in the order VisitAll visits them (SortFlags: by name)
RECURSIVE SortByName(_)
SortByName(fs) ==
    IF fs = {} THEN <<>>
    ELSE LET m == CHOOSE f \in fs : \A g \in fs : g = f \/ StrLess(f.name, g.name)
         IN  <<m>> \o SortByName(fs \ {m})

\* UnquoteUsage: the value name shown after the flag name
VarName(f) == IF f.typ = "int" THEN <<"i", "n", "t">> ELSE <<>>

\* the part of a usage line before the usage text
LinePrefix(f) ==
    (IF f.shorthand # <<>>
     THEN <<" ", " ", "-">> \o f.shorthand \o <<",", " ", "-", "-">> \o f.name
     ELSE Spaces(6) \o <<"-", "-">> \o f.name)
    \o (IF VarName(f) # <<>> THEN <<" ">> \o VarName(f) ELSE <<>>)

\* strings.LastIndexAny(s, " \t\n"), 0-based, -1 when absent
LastBreak(s) ==
    LET hits == {i \in 1..Len(s) : s[i] \in {" ", "\n"}}
    IN  IF hits = {} THEN -1 ELSE (CHOOSE i \in hits : \A j \in hits : j <= i) - 1

\* strings.LastIndex(s, "\n"), 0-based, -1 when absent
LastNL(s) ==
    LET hits == {i \in 1..Len(s) : s[i] = "\n"}
    IN  IF hits = {} THEN -1 ELSE (CHOOSE i \in hits : \A j \in hits : j <= i) - 1

\* pflag wrapN: split s at the last break before column i
WrapN(i, slop, s) ==
    IF i + slop > Len(s) THEN <<s, <<>>>>
    ELSE LET w == LastBreak(SubSeq(s, 1, i))
             nlPos == LastNL(SubSeq(s, 1, i))
         IN  IF w <= 0 THEN <<s, <<>>>>
             ELSE IF nlPos > 0 /\ nlPos < w
                  THEN <<SubSeq(s, 1, nlPos), SubSeq(s, nlPos + 2, Len(s))>>
                  ELSE <<SubSeq(s, 1, w), SubSeq(s, w + 2, Len(s))>>

\* pflag wrap's loop over the rest of the text
RECURSIVE WrapRest(_, _, _, _)
WrapRest(i, wrapw, slop, s) ==
    IF s = <<>> THEN <<>>
    ELSE LET p == WrapN(wrapw, slop, s)
         IN  <<"\n">> \o Spaces(i) \o ReplaceNL(p[1], <<"\n">> \o Spaces(i))
             \o WrapRest(i, wrapw, slop, p[2])

\* pflag wrap(i, w, s): the usage text s, to start at column i, wrapped to w columns
Wrap(i, w, s) ==
    IF w = 0 THEN ReplaceNL(s, <<"\n">> \o Spaces(i))
    ELSE LET narrow == w - i < 24
             i2 == IF narrow THEN 16 ELSE i
             r == IF narrow THEN <<"\n">> \o Spaces(16) ELSE <<>>
             wrapw == w - i2
         IN  IF wrapw < 24 THEN r \o ReplaceNL(s, r)
             ELSE LET p == WrapN(wrapw - 5, 5, s)
                  IN  r \o ReplaceNL(p[1], <<"\n">> \o Spaces(i2))
                        \o WrapRest(i2, wrapw - 5, 5, p[2])

\* maxlen of FlagUsagesWrapped: the longest line prefix, its separator counted
MaxLen(fs) ==
    IF fs = {} THEN 0
    ELSE LET lens == {Len(LinePrefix(f)) + 1 : f \in fs}
         IN  CHOOSE m \in lens : \A k \in lens : k <= m

\* one line of FlagUsagesWrapped
UsageLine(f, maxlen, c) ==
    LinePrefix(f) \o <<" ">> \o Spaces(maxlen - Len(LinePrefix(f))) \o <<" ">>
    \o Wrap(maxlen + 2, c, f.usage) \o <<"\n">>

\* fs.FlagUsagesWrapped(c)
FlagUsagesWrapped(fs, c) ==
    LET sorted == SortByName(fs)
        maxlen == MaxLen(fs)
    IN  Concat([k \in 1..Len(sorted) |-> UsageLine(sorted[k], maxlen, c)])

----------------------------------------------------------------------------
(* PrintSections *)

\* a mutation of UseFiller: the threshold is off by one
UseFillerFrom24(c) == c > 23

\* whether PrintSections adds the filler flag and truncates: cols > 24
UseFiller(c) == c > 24

\* zzz: the filler run
Filler(c) == Repeat("z", c - 24)

FillerFlag(c) == [name |-> Filler(c), shorthand |-> <<>>, typ |-> "int", usage |-> Filler(c)]

\* the section header: "\n%s flags:\n" of strings.ToUpper(name[:1]+name[:1])
Header(name) ==
    <<"\n", ToUpper(name[1]), ToUpper(name[1]), " ", "f", "l", "a", "g", "s", ":", "\n">>

\* the body of PrintSections' loop for one group with flags: what it writes,
\* or a panic (pflag's AddFlag panics when the filler's name is already taken)
Section(name, fs, c) ==
    IF UseFiller(c)
    THEN IF \E f \in fs : f.name = Filler(c)
         THEN [panic |-> TRUE, text |-> <<>>]
         ELSE LET buf == Header(name) \o FlagUsagesWrapped(fs \cup {FillerFlag(c)}, c)
                  i == Index(buf, Filler(c))
                  lines == SplitNL(SubSeq(buf, 1, i))
              IN  [panic |-> FALSE,
                   text |-> JoinNL(SubSeq(lines, 1, Len(lines) - 1)) \o <<"\n">>]
    ELSE [panic |-> FALSE, text |-> Header(name) \o FlagUsagesWrapped(fs, c)]

\* PrintSections' loop from the k-th name of Order on, w being what is written so far
RECURSIVE PrintFrom(_, _, _, _, _)
PrintFrom(n, h, c, k, w) ==
    IF k > Len(n.Order) THEN [panic |-> FALSE, text |-> w]
    ELSE LET fs == h[n.FlagSets[n.Order[k]]]
         IN  IF fs = {} THEN PrintFrom(n, h, c, k + 1, w)
             ELSE LET s == Section(n.Order[k], fs, c)
                  IN  IF s.panic THEN [panic |-> TRUE, text |-> w]
                      ELSE PrintFrom(n, h, c, k + 1, w \o s.text)

\* PrintSections(w, fss, cols)
PrintSections(n, h, c) == PrintFrom(n, h, c, 1, <<>>)

\* the flags the rendered groups are drawn from
FlagAB == [name |-> <<"a", "b">>, shorthand |-> <<>>, typ |-> "int", usage |-> <<"c", "d">>]
FlagY == [name |-> <<"y">>, shorthand |-> <<"h">>, typ |-> "bool", usage |-> <<"e", " ", "f">>]
FlagZZ == [name |-> <<"z", "z">>, shorthand |-> <<>>, typ |-> "bool", usage |-> <<"z">>]
FlagPool == {FlagAB, FlagY, FlagZZ}

PrintOrders ==
    {<<>>, <<GroupGlobal>>, <<GroupMisc>>, <<GroupGlobal, GroupMisc>>, <<GroupMisc, GroupGlobal>>}

InitPrint ==
    /\ pc = "input"
    /\ \E o \in PrintOrders : \E h \in [1..Len(o) -> SUBSET FlagPool] :
          /\ nfs = [Order |-> o, FlagSets |-> [name \in Chars(o) |->
                        CHOOSE i \in 1..Len(o) : o[i] = name]]
          /\ heap = h
    /\ cols \in 0..MaxCols
    /\ refs = <<>>
    /\ ret = 0
    /\ firstRet = <<>>
    /\ out = [panic |-> FALSE, text |-> <<>>]
    /\ app = IdleApp
    /\ cmd = IdleApp
    /\ optsLeft = 0
    /\ run = IdleApp

DoPrintSections ==
    /\ pc = "input"
    /\ out' = PrintSections(nfs, heap, cols)
    /\ pc' = "printed"
    /\ UNCHANGED <<nfs, heap, refs, ret, firstRet, cols, app, cmd, optsLeft, run>>

NextPrint == DoPrintSections

SpecPrint == InitPrint /\ [][NextPrint]_vars

----------------------------------------------------------------------------
(* App: construction *)

\* nil: no Options, no validator, no error
Nil == [nil |-> TRUE]

\* an error with the given message
Err(m) == [msg |-> m]

\* the Options objects handed to WithOptions: which optional capabilities
\* (CompletableOptions, PrintableOptions) the object has, and which groups
\* its Flags() returns
OptionsPool == [complete : BOOLEAN, printable : BOOLEAN, groups : {"none", "misc", "global+misc"}]

\* options.Flags(): the NamedFlagSets the object returns and its flag sets
OptionsFlags(o) ==
    CASE o.groups = "none" -> [nfs |-> EmptyNFS, heap |-> <<>>]
      [] o.groups = "misc" ->
            [nfs |-> [Order |-> <<GroupMisc>>, FlagSets |-> (GroupMisc :> 1)],
             heap |-> <<{FlagAB}>>]
      [] OTHER ->
            [nfs |-> [Order |-> <<GroupGlobal, GroupMisc>>,
                      FlagSets |-> (GroupGlobal :> 1) @@ (GroupMisc :> 2)],
             heap |-> <<{FlagZZ}, {FlagAB}>>]

\* the App NewApp allocates, before any Option is applied
NewAppValue ==
    [options |-> Nil, runFunc |-> FALSE, silence |-> FALSE, noVersion |-> FALSE,
     noConfig |-> FALSE, args |-> Nil]

\* the name of the root command: the first word of FormatBasename(basename)
CmdName == <<"a", "p", "p">>

\* the flag AddGlobalFlags registers: BoolP("help", "h", false, "help for <name>")
HelpFlag ==
    [name |-> <<"h", "e", "l", "p">>, shorthand |-> <<"h">>, typ |-> "bool",
     usage |-> <<"h", "e", "l", "p", " ", "f", "o", "r", " ">> \o CmdName]

\* the flag AddFlags registers: the version flag
VersionFlag ==
    [name |-> <<"v", "e", "r", "s", "i", "o", "n">>, shorthand |-> <<>>, typ |-> "bool",
     usage |-> <<"v">>]

\* the flag addConfigFlag registers: the config-file flag
ConfigFlag ==
    [name |-> <<"c", "o", "n", "f", "i", "g">>, shorthand |-> <<"c">>, typ |-> "string",
     usage |-> <<"f">>]

\* fs.AddFlag on the flag set a FlagSet call returned: r is FlagSet's result
AddTo(r, f) ==
    [nfs |-> r.nfs, heap |-> [r.heap EXCEPT ![r.ret] = @ \cup {f}]]

\* AddFlags(namedFlagSets.FlagSet("global"))
AddFlags(n, h) == AddTo(FlagSet(n, h, GroupGlobal), VersionFlag)

\* addConfigFlag(a.basename, namedFlagSets.FlagSet("global"))
addConfigFlag(n, h) == AddTo(FlagSet(n, h, GroupGlobal), ConfigFlag)

\* AddGlobalFlags(namedFlagSets.FlagSet("global"), cmd.Name())
AddGlobalFlags(n, h) == AddTo(FlagSet(n, h, GroupGlobal), HelpFlag)

\* the flags of every flag set of a NamedFlagSets
AllFlags(n, h) == UNION {h[n.FlagSets[k]] : k \in DOMAIN n.FlagSets}

\* a.buildCommand(): the root command, and the namedFlagSets the help and
\* usage functions keep
buildCommand(a) ==
    LET got == IF a.options # Nil THEN OptionsFlags(a.options)
               ELSE [nfs |-> EmptyNFS, heap |-> <<>>]
        \* fs.AddFlagSet(f) for every flag set of namedFlagSets
        merged == IF a.options # Nil THEN AllFlags(got.nfs, got.heap) ELSE {}
        s1 == IF a.noVersion THEN AddFlags(got.nfs, got.heap) ELSE got
        s2 == IF ~a.noConfig THEN addConfigFlag(s1.nfs, s1.heap) ELSE s1
        s3 == AddGlobalFlags(s2.nfs, s2.heap)
    IN  [cmd |-> [RunE |-> a.runFunc, Args |-> a.args, Flags |-> merged,
                  helpFunc |-> a.options # Nil],
         nfs |-> s3.nfs,
         heap |-> s3.heap]

InitApp ==
    /\ pc = "new"
    /\ app = NewAppValue
    /\ optsLeft = MaxOpts
    /\ cmd = IdleApp
    /\ run = IdleApp
    /\ nfs = EmptyNFS
    /\ heap = <<>>
    /\ refs = <<>>
    /\ ret = 0
    /\ firstRet = <<>>
    /\ cols = 0
    /\ out = [panic |-> FALSE, text |-> <<>>]

\* NewApp applies one more Option: opt(a)
ApplyOption(field, value) ==
    /\ pc = "new"
    /\ optsLeft > 0
    /\ app' = [app EXCEPT ![field] = value]
    /\ optsLeft' = optsLeft - 1
    /\ UNCHANGED <<pc, nfs, heap, refs, ret, firstRet, cols, out, cmd, run>>

WithRunFunc == ApplyOption("runFunc", TRUE)

WithOptions == \E o \in OptionsPool : ApplyOption("options", o)

WithSilence == ApplyOption("silence", TRUE)

WithNoVersion == ApplyOption("noVersion", TRUE)

WithNoConfig == ApplyOption("noConfig", TRUE)

WithDefaultValidArgs == ApplyOption("args", [validator |-> "default"])

\* NewApp calls a.buildCommand() and returns
BuildCommand ==
    /\ pc = "new"
    /\ LET b == buildCommand(app)
       IN  /\ cmd' = b.cmd
           /\ nfs' = b.nfs
           /\ heap' = b.heap
    /\ pc' = "built"
    /\ optsLeft' = 0
    /\ UNCHANGED <<app, refs, ret, firstRet, cols, out, run>>

----------------------------------------------------------------------------
(* App: execution lifecycle *)

\* the lists of errors Validate returns
ValidateResults ==
    {<<>>, <<Err("errA")>>, <<Err("errA"), Err("errB")>>, <<Err("errB"), Err("errA")>>}

\* what the collaborators do in one run: whether the version was requested,
\* the results of viper.BindPFlags, viper.Unmarshal, Complete, Validate and
\* RunFunc, the non-flag arguments, and whether colour output is on.
\* viper.Unmarshal may fail for any Options, a nil one included.
Envs ==
    [versionRequested : BOOLEAN,
     bindErr : {Nil, Err("bind failed")},
     unmarshalErr : {Nil, Err("unmarshal failed")},
     completeErr : {Nil, Err("complete failed")},
     validateErrs : ValidateResults,
     runErr : {Nil, Err("run failed")},
     args : {<<>>, <<"x">>},
     colour : BOOLEAN]

Call(fn, res) == [fn |-> fn, res |-> res]

\* errors.NewAggregate(errs): one failure holding every error of the list
NewAggregate(errs) == [aggregate |-> errs]

\* a mutation of applyOptionRules: a failure of Complete is dropped
applyOptionRulesDropComplete(a, env) ==
    LET c1 == IF a.options.complete THEN <<Call("Complete", env.completeErr)>> ELSE <<>>
        c2 == Append(c1, Call("Validate", env.validateErrs))
    IN  IF env.validateErrs # <<>>
        THEN [calls |-> c2, log |-> <<>>, err |-> NewAggregate(env.validateErrs)]
        ELSE IF a.options.printable
             THEN [calls |-> Append(c2, Call("String", Nil)), log |-> <<"Config">>, err |-> Nil]
             ELSE [calls |-> c2, log |-> <<>>, err |-> Nil]

\* a mutation of applyOptionRules: only the first validation error is returned
applyOptionRulesFirstError(a, env) ==
    LET c1 == IF a.options.complete THEN <<Call("Complete", env.completeErr)>> ELSE <<>>
        c2 == Append(c1, Call("Validate", env.validateErrs))
    IN  IF a.options.complete /\ env.completeErr # Nil
        THEN [calls |-> c1, log |-> <<>>, err |-> env.completeErr]
        ELSE IF env.validateErrs # <<>>
        THEN [calls |-> c2, log |-> <<>>, err |-> env.validateErrs[1]]
        ELSE IF a.options.printable
             THEN [calls |-> Append(c2, Call("String", Nil)), log |-> <<"Config">>, err |-> Nil]
             ELSE [calls |-> c2, log |-> <<>>, err |-> Nil]

\* a.applyOptionRules(): the calls made on Options, the lines logged, the result
applyOptionRules(a, env) ==
    LET c1 == IF a.options.complete THEN <<Call("Complete", env.completeErr)>> ELSE <<>>
        c2 == Append(c1, Call("Validate", env.validateErrs))
    IN  IF a.options.complete /\ env.completeErr # Nil
        THEN [calls |-> c1, log |-> <<>>, err |-> env.completeErr]
        ELSE IF env.validateErrs # <<>>
        THEN [calls |-> c2, log |-> <<>>, err |-> NewAggregate(env.validateErrs)]
        ELSE IF a.options.printable
             THEN [calls |-> Append(c2, Call("String", Nil)), log |-> <<"Config">>, err |-> Nil]
             ELSE [calls |-> c2, log |-> <<>>, err |-> Nil]

\* a mutation of bindConfig: a failure of viper.BindPFlags is not returned
bindConfigIgnoreBind(a, env) ==
    IF a.noConfig THEN [calls |-> <<>>, err |-> Nil]
    ELSE [calls |-> <<Call("BindPFlags", env.bindErr), Call("Unmarshal", env.unmarshalErr)>>,
          err |-> env.unmarshalErr]

\* runCommand's configuration step: bind the flags, unmarshal onto Options
bindConfig(a, env) ==
    IF a.noConfig THEN [calls |-> <<>>, err |-> Nil]
    ELSE IF env.bindErr # Nil
         THEN [calls |-> <<Call("BindPFlags", env.bindErr)>>, err |-> env.bindErr]
         ELSE [calls |-> <<Call("BindPFlags", Nil), Call("Unmarshal", env.unmarshalErr)>>,
               err |-> env.unmarshalErr]

\* runCommand's banner: the lines logged unless silence
banner(a) ==
    IF a.silence THEN <<>>
    ELSE <<"Starting">>
         \o (IF ~a.noVersion THEN <<"Version">> ELSE <<>>)
         \o (IF ~a.noConfig THEN <<"ConfigFileUsed">> ELSE <<>>)

\* printWorkDir() and PrintFlags(cmd.Flags())
diagnostics(c) == <<"WorkingDir">> \o [k \in 1..Cardinality(c.Flags) |-> "FLAG"]

\* PrintAndExitIfRequested(): whether the process prints the version and exits
PrintAndExitIfRequested(env) == env.versionRequested

\* a.runCommand(cmd, args): lines logged, calls made, the error returned,
\* and whether the process exited inside the handler
runCommand(a, c, env) ==
    LET d == diagnostics(c)
        b == bindConfig(a, env)
        r == IF a.options # Nil THEN applyOptionRules(a, env)
             ELSE [calls |-> <<>>, log |-> <<>>, err |-> Nil]
    IN  IF ~a.noVersion /\ PrintAndExitIfRequested(env)
        THEN [log |-> d, calls |-> <<>>, err |-> Nil, exited |-> TRUE]
        ELSE IF b.err # Nil
        THEN [log |-> d, calls |-> b.calls, err |-> b.err, exited |-> FALSE]
        ELSE IF r.err # Nil
        THEN [log |-> d \o banner(a) \o r.log, calls |-> b.calls \o r.calls,
              err |-> r.err, exited |-> FALSE]
        ELSE IF a.runFunc
        THEN [log |-> d \o banner(a) \o r.log,
              calls |-> b.calls \o r.calls \o <<Call("RunFunc", env.runErr)>>,
              err |-> env.runErr, exited |-> FALSE]
        ELSE [log |-> d \o banner(a) \o r.log, calls |-> b.calls \o r.calls,
              err |-> Nil, exited |-> FALSE]

\* the validator WithDefaultValidArgs installs
DefaultValidArgs(args) ==
    IF \E i \in 1..Len(args) : args[i] # "" THEN Err("does not take any arguments") ELSE Nil

\* a.cmd.Execute(): a command without RunE only prints its help; otherwise the
\* arguments are validated and the handler runs
Execute(a, c, env) ==
    IF ~c.RunE
    THEN [handler |-> FALSE, log |-> <<>>, calls |-> <<>>, err |-> Nil, exited |-> FALSE]
    ELSE IF c.Args # Nil /\ DefaultValidArgs(env.args) # Nil
    THEN [handler |-> FALSE, log |-> <<>>, calls |-> <<>>,
          err |-> DefaultValidArgs(env.args), exited |-> FALSE]
    ELSE [handler |-> TRUE] @@ runCommand(a, c, env)

\* err.Error(): an aggregate prints as the list of its errors
ErrorText(e) ==
    IF "msg" \in DOMAIN e THEN <<e.msg>>
    ELSE <<"[">> \o Concat([k \in 1..Len(e.aggregate) |->
                    (IF k > 1 THEN <<", ">> ELSE <<>>) \o <<e.aggregate[k].msg>>]) \o <<"]">>

\* fmt.Sprintf(format, args...) for formats of "%v" verbs and literal text:
\* a verb without operand prints %!v(MISSING), operands left over print as EXTRA
RECURSIVE Sprintf(_, _)
Sprintf(format, args) ==
    IF format = <<>>
    THEN IF args = <<>> THEN <<>>
         ELSE <<"%!(EXTRA ">> \o Concat([k \in 1..Len(args) |->
                  (IF k > 1 THEN <<", ">> ELSE <<>>) \o <<"type=">> \o args[k]]) \o <<")">>
    ELSE IF Head(format) = "%v"
         THEN IF args = <<>> THEN <<"%!v(MISSING)">> \o Sprintf(Tail(format), args)
              ELSE Head(args) \o Sprintf(Tail(format), Tail(args))
         ELSE <<Head(format)>> \o Sprintf(Tail(format), args)

\* color.RedString(format, a...)
RedString(colour, format, args) ==
    IF colour THEN <<"ESC[31m">> \o Sprintf(format, args) \o <<"ESC[0m">>
    ELSE Sprintf(format, args)

\* App.Run's report of a failure: fmt.Printf("%v %v\n", color.RedString("Error:", err))
errorReport(colour, e) ==
    Sprintf(<<"%v", " ", "%v", "\n">>, <<RedString(colour, <<"Error:">>, <<ErrorText(e)>>)>>)

\* a.Run()
Run ==
    /\ pc = "built"
    /\ \E env \in Envs :
          LET x == Execute(app, cmd, env)
          IN  run' = [handler |-> x.handler, log |-> x.log, calls |-> x.calls,
                      err |-> x.err, versionExit |-> x.exited,
                      exit |-> IF ~x.exited /\ x.err # Nil THEN 1 ELSE 0,
                      stdout |-> IF ~x.exited /\ x.err # Nil
                                 THEN errorReport(env.colour, x.err) ELSE <<>>,
                      stderr |-> <<>>]
    /\ pc' = "ran"
    /\ UNCHANGED <<app, cmd, optsLeft, nfs, heap, refs, ret, firstRet, cols, out>>

Next ==
    \/ WithRunFunc
    \/ WithOptions
    \/ WithSilence
    \/ WithNoVersion
    \/ WithNoConfig
    \/ WithDefaultValidArgs
    \/ BuildCommand
    \/ Run

Spec == InitApp /\ [][Next]_vars

----------------------------------------------------------------------------
(* C2 .. C7, C9 *)

HasCall(fn) == \E i \in 1..Len(run.calls) : run.calls[i].fn = fn

Logged(line) == \E i \in 1..Len(run.log) : run.log[i] = line

Ran == pc = "ran" /\ run.handler

\* C2: in a run where Options is set and exposes Complete, a failure of Complete
\* means Validate is not invoked, the String dump is not logged, RunFunc is not
\* invoked, and the handler returns the failure of Complete.
C2_CompleteFailureAborts ==
    (Ran /\ app.options # Nil) =>
        \A i \in 1..Len(run.calls) :
            (run.calls[i].fn = "Complete" /\ run.calls[i].res # Nil) =>
                /\ ~HasCall("Validate")
                /\ ~HasCall("String")
                /\ ~Logged("Config")
                /\ ~HasCall("RunFunc")
                /\ run.err = run.calls[i].res

\* Complete failed in a run of an App whose Options can also be printed
C2_Witness ==
    /\ Ran
    /\ app.options # Nil
    /\ app.options.printable
    /\ \E i \in 1..Len(run.calls) :
          run.calls[i].fn = "Complete" /\ run.calls[i].res # Nil

\* C3: when Validate returns one or more errors the handler returns one
\* combined failure built from all of them, the String dump is not logged and
\* RunFunc is not invoked; with Options set, RunFunc is invoked only in runs
\* where Validate returned an empty list.
C3_ValidateFailureAggregated ==
    (Ran /\ app.options # Nil) =>
        /\ \A i \in 1..Len(run.calls) :
              (run.calls[i].fn = "Validate" /\ run.calls[i].res # <<>>) =>
                  /\ run.err = [aggregate |-> run.calls[i].res]
                  /\ ~HasCall("String")
                  /\ ~Logged("Config")
                  /\ ~HasCall("RunFunc")
        /\ HasCall("RunFunc") =>
              \E i \in 1..Len(run.calls) :
                  run.calls[i].fn = "Validate" /\ run.calls[i].res = <<>>

\* Validate returned two errors, after a successful Complete
C3_Witness ==
    /\ Ran
    /\ app.options # Nil
    /\ \E i \in 1..Len(run.calls) :
          run.calls[i].fn = "Complete" /\ run.calls[i].res = Nil
    /\ \E i \in 1..Len(run.calls) :
          run.calls[i].fn = "Validate" /\ Len(run.calls[i].res) = 2

GlobalGroup == heap[nfs.FlagSets[GroupGlobal]]

\* C4: buildCommand registers the version flag in the "global" group exactly
\* when noVersion is false, the config-file flag exactly when noConfig is
\* false, and the help flag always.
C4_GlobalFlagsBySwitch ==
    (pc \in {"built", "ran"}) =>
        /\ (VersionFlag \in GlobalGroup) <=> ~app.noVersion
        /\ (ConfigFlag \in GlobalGroup) <=> ~app.noConfig
        /\ HelpFlag \in GlobalGroup

\* C5: after NewApp returns every global flag registered during construction
\* is a flag of the root command's own flag collection.
C5_GlobalFlagsOnRoot ==
    (pc \in {"built", "ran"}) =>
        \A f \in {HelpFlag, VersionFlag, ConfigFlag} :
            f \in GlobalGroup => f \in cmd.Flags

\* C6: with noConfig false a failure of binding or unmarshalling is returned at
\* once: no banner line is logged, the option rules are not run, RunFunc is not
\* invoked; with noConfig true neither binding nor unmarshalling is attempted.
C6_BindFailureAborts ==
    Ran =>
        /\ app.noConfig => (~HasCall("BindPFlags") /\ ~HasCall("Unmarshal"))
        /\ \A i \in 1..Len(run.calls) :
              (run.calls[i].fn \in {"BindPFlags", "Unmarshal"} /\ run.calls[i].res # Nil) =>
                  /\ ~app.noConfig
                  /\ run.err = run.calls[i].res
                  /\ \A line \in {"Starting", "Version", "ConfigFileUsed", "Config"} :
                        ~Logged(line)
                  /\ \A fn \in {"Complete", "Validate", "String", "RunFunc"} : ~HasCall(fn)

\* binding succeeded and unmarshalling failed, in a run that would otherwise
\* have logged the banner and applied the option rules
C6_Witness ==
    /\ Ran
    /\ ~app.silence
    /\ app.options # Nil
    /\ \E i \in 1..Len(run.calls) :
          run.calls[i].fn = "Unmarshal" /\ run.calls[i].res # Nil

\* C7: with WithSilence no run logs the startup banner, the version line, the
\* config-file-used line or the Options configuration dump.
C7_SilenceLogsNothing ==
    (Ran /\ app.silence) =>
        \A line \in {"Starting", "Version", "ConfigFileUsed", "Config"} : ~Logged(line)

\* text without colour markup
Plain(text) == SelectSeq(text, LAMBDA t : t \notin {"ESC[31m", "ESC[0m"})

\* C9: when executing the root command returns an error Run prints the line
\* "Error: <message>" to standard error and exits with status 1; it never
\* exits non-zero when execution succeeds; a failure of RunFunc reaches Run
\* unchanged.
C9_ExitAndReport ==
    (pc = "ran" /\ ~run.versionExit) =>
        /\ run.err # Nil =>
              /\ run.exit = 1
              /\ Plain(run.stderr) = <<"Error:", " ">> \o ErrorText(run.err) \o <<"\n">>
        /\ run.err = Nil => run.exit = 0
        /\ \A i \in 1..Len(run.calls) :
              (run.calls[i].fn = "RunFunc" /\ run.calls[i].res # Nil) =>
                  run.err = run.calls[i].res

----------------------------------------------------------------------------
(* C8, C10 *)

\* a flag's usage on one line: name, alignment, usage text
PlainLine(f, maxlen) ==
    LinePrefix(f) \o Spaces(maxlen - Len(LinePrefix(f)) + 2) \o f.usage \o <<"\n">>

\* a flag's usage as a block: name and alignment, then the usage text,
\* unbroken, on a line of its own indented by 16 columns
BlockLine(f, maxlen) ==
    LinePrefix(f) \o Spaces(maxlen - Len(LinePrefix(f)) + 2) \o <<"\n">>
    \o Spaces(16) \o f.usage \o <<"\n">>

\* header plus one line per flag for every group of Order that has flags;
\* block chooses the layout and filler the flags that only count for alignment
SectionsText(block, filler) ==
    Concat([k \in 1..Len(nfs.Order) |->
        LET fs == heap[nfs.FlagSets[nfs.Order[k]]]
            sorted == SortByName(fs)
            maxlen == MaxLen(fs \cup filler)
        IN  IF fs = {} THEN <<>>
            ELSE Header(nfs.Order[k]) \o
                 Concat([j \in 1..Len(sorted) |->
                     IF block THEN BlockLine(sorted[j], maxlen)
                     ELSE PlainLine(sorted[j], maxlen)])])

C10_OnlyFillerRemoved ==
    (pc = "printed" /\ cols > 24) =>
        (~out.panic /\ out.text = SectionsText(TRUE, {FillerFlag(cols)}))

----------------------------------------------------------------------------
(* C1 *)

RECURSIVE FirstRefs(_)
FirstRefs(s) ==
    IF s = <<>> THEN <<>>
    ELSE LET r == FirstRefs(SubSeq(s, 1, Len(s) - 1))
             x == s[Len(s)]
         IN  IF x \in Chars(r) THEN r ELSE Append(r, x)

\* C1: after every FlagSet call Order holds each name referenced so far exactly
\* once, in order of first reference, the keys of FlagSets are the names of
\* Order, the call returns the collection the first call with that name created,
\* and a call with a name already seen changes neither Order nor FlagSets.
C1_FlagSetOrder ==
    /\ [](pc = "nfs" =>
            /\ nfs.Order = FirstRefs(refs)
            /\ \A i, j \in 1..Len(nfs.Order) : nfs.Order[i] = nfs.Order[j] => i = j
            /\ DOMAIN nfs.FlagSets = Chars(nfs.Order)
            /\ (refs # <<>> => ret = firstRet[refs[Len(refs)]]))
    /\ [][(pc = "nfs" /\ Len(refs') = Len(refs) + 1
            /\ refs'[Len(refs')] \in Chars(refs))
          => (nfs' = nfs /\ heap' = heap)]_vars

\* a name has been referenced a second time, after another name
C1_Witness ==
    /\ pc = "nfs"
    /\ Len(refs) >= 3
    /\ refs[Len(refs)] = refs[1]
    /\ refs[2] # refs[1]

====
